---- MODULE Spec2Model ----
(***************************************************************************)
(* Reference-counted smart pointers: the control blocks                    *)
(* (ControlBlockPointer, ControlBlockObject), SharedPtr and WeakPtr.       *)
(*                                                                         *)
(* A control block is named by a number in Blocks; the payload it governs  *)
(* has the same number as its address.  Handles are C++ objects: a fixed   *)
(* number of them are automatic variables of the caller (Slots); a payload *)
(* of the user type Node has two more as its members, a SharedPtr `next`   *)
(* and a WeakPtr `self`, which live exactly as long as the payload does.   *)
(*                                                                         *)
(* size_t counters are kept as the representative of least absolute value  *)
(* of their residue class modulo 2^64: -1 stands for SIZE_MAX, and a       *)
(* counter is zero in the code iff its representative is 0.                *)
(*                                                                         *)
(* A read of storage that has been deallocated or destroyed yields a value *)
(* that the caller of the operation cannot control: it is drawn from the   *)
(* record g (the "garbage") that every operator takes.                     *)
(*                                                                         *)
(* UniquePtr and IntrusivePtr are modelled next to them, each with a state *)
(* of its own: uq holds the UniquePtr objects of the caller and, for every *)
(* address, how often a deleter was invoked on it; intr holds the          *)
(* IntrusivePtr objects and the RefCounted objects they point at.          *)
(***************************************************************************)
EXTENDS Integers, FiniteSets, Sequences, TLC

VARIABLES blk, sp, wp, last, watch, uq, intr

vars == <<blk, sp, wp, last, watch, uq, intr>>

\* ------------------------------------------------------------------ bounds
MaxBlocks == 2
NSlots == 3
MaxShared == 2
MaxWeak == 2
MaxDeficit == 1
MaxObjs == 2

\* ------------------------------------------------------------------ names
Null == 0
Blocks == 1..MaxBlocks
\* an address that is the payload of no block (a sub-object, a static)
Foreign == MaxBlocks + 1

\* the caller's automatic variables, each a SharedPtr or a WeakPtr while it is
\* constructed, and the members of the payload at address b
Slots == 1..NSlots
NextOf(b) == NSlots + b
SelfOf(b) == NSlots + b
SharedIds == 1..(NSlots + MaxBlocks)
WeakIds == 1..(NSlots + MaxBlocks)

\* the payload types: "Plain" holds no smart pointer, "Node" has the members
\* SharedPtr<Node> next and WeakPtr<Node> self; "None" is the null pointer
NoBlock ==
  [kind |-> "None", shared_cnt |-> 0, weak_cnt |-> 0, ptr |-> Null,
   type |-> "None", freed |-> 0, destroyed |-> 0]
EmptyHandle == [live |-> TRUE, cb |-> Null, observed |-> Null]
DeadHandle == [live |-> FALSE, cb |-> Null, observed |-> Null]

Cap(n) == IF n > 2 THEN 2 ELSE n

\* the program state as one value, with the two results of an operation:
\* uaf (it read or wrote deallocated or destroyed storage) and out
Cur == [blk |-> blk, sp |-> sp, wp |-> wp, uaf |-> FALSE, out |-> "ok"]

\* what a read of dead storage can yield: s and w for the counters of a
\* deallocated block, cb for the cb_ and observed_ of a destroyed handle (null,
\* or what a handle of some block held)
Garbage ==
  [s : 0..1, w : 0..1, cb : {Null} \cup {b \in Blocks : blk[b].kind # "None"}]
G0 == [s |-> 0, w |-> 0, cb |-> Null]

Touch(st) == [st EXCEPT !.uaf = TRUE]
Allocated(st, b) == st.blk[b].kind # "None" /\ st.blk[b].freed = 0

\* ------------------------------------------------------------------ control blocks
\* ControlBlockPointer(T* ptr), for a payload of the given type at address b
\* (type "None": ptr is null)
NewControlBlockPointer(st, b, type) ==
  [st EXCEPT !.blk[b] = [kind |-> "Pointer", shared_cnt |-> 1, weak_cnt |-> 0,
                         ptr |-> IF type = "None" THEN Null ELSE b,
                         type |-> type, freed |-> 0, destroyed |-> 0]]

\* a ControlBlockObject that counts itself as an observer of its payload
NewControlBlockObject_WeakOne(st, b, type) ==
  [st EXCEPT !.blk[b] = [kind |-> "Object", shared_cnt |-> 1, weak_cnt |-> 1,
                         ptr |-> b, type |-> type, freed |-> 0, destroyed |-> 0]]

NewControlBlockObject(st, b, type) ==
  [st EXCEPT !.blk[b] = [kind |-> "Object", shared_cnt |-> 1, weak_cnt |-> 0,
                         ptr |-> b, type |-> type, freed |-> 0, destroyed |-> 0]]

\* T's constructor: the members of a Node are default-constructed
ConstructPayload(st, b, type) ==
  IF type = "Node"
  THEN [st EXCEPT !.sp[NextOf(b)] = EmptyHandle, !.wp[SelfOf(b)] = EmptyHandle]
  ELSE st

DeleteThis(st, b) == [st EXCEPT !.blk[b].freed = Cap(@ + 1)]

IncreaseSharedCounter(st, b) ==
  IF Allocated(st, b)
  THEN [st EXCEPT !.blk[b].shared_cnt = @ + 1]
  ELSE Touch(st)

IncreaseWeakCounter(st, b) ==
  IF Allocated(st, b)
  THEN [st EXCEPT !.blk[b].weak_cnt = @ + 1]
  ELSE Touch(st)

DecreaseWeakCounter(st, b, g) ==
  IF Allocated(st, b)
  THEN LET t == [st EXCEPT !.blk[b].weak_cnt = @ - 1]
       IN  IF t.blk[b].weak_cnt = 0 /\ t.blk[b].shared_cnt = 0
           THEN DeleteThis(t, b)
           ELSE t
  ELSE IF g.w = 1 /\ g.s = 0
       THEN DeleteThis(Touch(st), b)
       ELSE Touch(st)

RECURSIVE DecreaseSharedCounter(_, _, _)

\* delete ptr_ (ControlBlockPointer) or obj_.~T() (ControlBlockObject): the
\* payload's destructor destroys its members, self first, then next
DestroyPayload(st, b, g) ==
  IF st.blk[b].ptr = Null
  THEN st
  ELSE IF st.blk[b].destroyed > 0
  THEN Touch([st EXCEPT !.blk[b].destroyed = Cap(@ + 1)])
  ELSE IF st.blk[b].type # "Node"
  THEN [st EXCEPT !.blk[b].destroyed = 1]
  ELSE LET s0 == [st EXCEPT !.blk[b].destroyed = 1]
           w  == s0.wp[SelfOf(b)]
           s1 == IF w.cb # Null THEN DecreaseWeakCounter(s0, w.cb, g) ELSE s0
           s2 == [s1 EXCEPT !.wp[SelfOf(b)] = DeadHandle]
           n  == s2.sp[NextOf(b)]
           s3 == IF n.cb # Null THEN DecreaseSharedCounter(s2, n.cb, g) ELSE s2
       IN  [s3 EXCEPT !.sp[NextOf(b)] = DeadHandle]

\* a release that destroys the payload together with the block, when the last
\* WeakPtr is gone too
DecreaseSharedCounter_PayloadWithBlock(st, b, g) ==
  LET t == [st EXCEPT !.blk[b].shared_cnt = @ - 1]
  IN  IF t.blk[b].weak_cnt = 0 /\ t.blk[b].shared_cnt = 0
      THEN DeleteThis(DestroyPayload(t, b, g), b)
      ELSE t

DecreaseSharedCounter(st, b, g) ==
  IF Allocated(st, b)
  THEN LET t == [st EXCEPT !.blk[b].shared_cnt = @ - 1]
           u == IF t.blk[b].shared_cnt = 0 THEN DestroyPayload(t, b, g) ELSE t
       IN  IF Allocated(u, b)
           THEN IF u.blk[b].weak_cnt = 0 /\ u.blk[b].shared_cnt = 0
                THEN DeleteThis(u, b)
                ELSE u
           ELSE IF g.w = 0 /\ g.s = 0
                THEN DeleteThis(Touch(u), b)
                ELSE Touch(u)
  ELSE LET t == Touch(st)
           u == IF g.s = 1 THEN DestroyPayload(t, b, g) ELSE t
       IN  IF g.w = 0 /\ g.s = 1 THEN DeleteThis(u, b) ELSE u

GetSharedCounter(st, b, g) ==
  IF Allocated(st, b) THEN st.blk[b].shared_cnt ELSE g.s

\* ------------------------------------------------------------------ SharedPtr
\* the fields of `other` as the code reads them: garbage once `other` has been
\* destroyed under the operation's feet
ReadShared(st, s, g) ==
  IF st.sp[s].live
  THEN [cb |-> st.sp[s].cb, observed |-> st.sp[s].observed, st |-> st]
  ELSE [cb |-> g.cb, observed |-> g.cb, st |-> Touch(st)]

\* cb_ = cb; observed_ = obs; on a handle that may have been destroyed meanwhile
StoreShared(st, d, cb, obs) ==
  IF st.sp[d].live
  THEN [st EXCEPT !.sp[d] = [live |-> TRUE, cb |-> cb, observed |-> obs]]
  ELSE Touch(st)

Shared_IncreaseCBCounter(st, cb) ==
  IF cb # Null THEN IncreaseSharedCounter(st, cb) ELSE st

Shared_DecreaseCBCounter(st, cb, g) ==
  IF cb # Null THEN DecreaseSharedCounter(st, cb, g) ELSE st

Shared_GetCBCounter(st, cb, g) ==
  IF cb # Null THEN GetSharedCounter(st, cb, g) ELSE 0

Get(st, h) == st.sp[h].observed
OperatorBool(st, h) == st.sp[h].observed # Null
UseCount(st, h, g) == Shared_GetCBCounter(st, st.sp[h].cb, g)
OperatorEq(st, l, r) == Get(st, l) = Get(st, r)

\* the block number operator new hands out next
NewBlock(st) == CHOOSE b \in Blocks :
  /\ st.blk[b].kind = "None"
  /\ \A c \in Blocks : st.blk[c].kind = "None" => b <= c
CanAllocate == \E b \in Blocks : blk[b].kind = "None"

SharedPtr_Default(st, d) == [st EXCEPT !.sp[d] = EmptyHandle]

\* explicit SharedPtr(T* ptr): ptr is null (type "None") or a payload just
\* made by new T
SharedPtr_FromPointer(st, d, type) ==
  LET b == NewBlock(st)
      t == ConstructPayload(st, b, type)
      u == NewControlBlockPointer(t, b, type)
  IN  [u EXCEPT !.sp[d] = [live |-> TRUE, cb |-> b, observed |-> u.blk[b].ptr]]

MakeShared(st, d, type) ==
  LET b == NewBlock(st)
      t == ConstructPayload(NewControlBlockObject(st, b, type), b, type)
  IN  [t EXCEPT !.sp[d] = [live |-> TRUE, cb |-> b, observed |-> t.blk[b].ptr]]

SharedPtr_Copy(st, d, s) ==
  LET t == [st EXCEPT !.sp[d] = [live |-> TRUE, cb |-> st.sp[s].cb,
                                 observed |-> st.sp[s].observed]]
  IN  Shared_IncreaseCBCounter(t, t.sp[d].cb)

\* a move constructor that takes the fields and leaves them in the source
SharedPtr_Move_SourceKept(st, d, s) ==
  [st EXCEPT !.sp[d] = [live |-> TRUE, cb |-> st.sp[s].cb,
                        observed |-> st.sp[s].observed]]

SharedPtr_Move(st, d, s) ==
  [st EXCEPT !.sp[d] = [live |-> TRUE, cb |-> st.sp[s].cb,
                        observed |-> st.sp[s].observed],
             !.sp[s] = EmptyHandle]

\* an aliasing constructor that copies the fields and forgets the counter
SharedPtr_Aliasing_Uncounted(st, d, s, ptr) ==
  [st EXCEPT !.sp[d] = [live |-> TRUE, cb |-> st.sp[s].cb, observed |-> ptr]]

SharedPtr_Aliasing(st, d, s, ptr) ==
  LET t == [st EXCEPT !.sp[d] = [live |-> TRUE, cb |-> st.sp[s].cb,
                                 observed |-> ptr]]
  IN  Shared_IncreaseCBCounter(t, t.sp[d].cb)

SharedPtr_CopyAssign(st, d, s, g) ==
  IF d = s
  THEN st
  ELSE LET t == Shared_DecreaseCBCounter(st, st.sp[d].cb, g)
           o == ReadShared(t, s, g)
           u == StoreShared(o.st, d, o.cb, o.observed)
       IN  Shared_IncreaseCBCounter(u, o.cb)

SharedPtr_MoveAssign(st, d, s, g) ==
  IF d = s
  THEN st
  ELSE LET t == Shared_DecreaseCBCounter(st, st.sp[d].cb, g)
           o == ReadShared(t, s, g)
           u == StoreShared(o.st, d, o.cb, o.observed)
       IN  StoreShared(u, s, Null, Null)

SharedPtr_Destructor(st, d, g) ==
  LET t == Shared_DecreaseCBCounter(st, st.sp[d].cb, g)
  IN  [t EXCEPT !.sp[d] = DeadHandle]

SharedPtr_Reset(st, d, g) ==
  LET t == Shared_DecreaseCBCounter(st, st.sp[d].cb, g)
  IN  StoreShared(t, d, Null, Null)

\* a Reset(T* ptr) that adopts ptr and forgets the block it held
SharedPtr_ResetPtr_NoRelease(st, d, type, g) ==
  LET b == NewBlock(st)
      s0 == ConstructPayload(st, b, type)
      u == NewControlBlockPointer(s0, b, type)
  IN  StoreShared(u, d, b, u.blk[b].ptr)

\* Reset(T* ptr): the payload exists before the call, the block is made after
\* the release
SharedPtr_ResetPtr(st, d, type, g) ==
  LET b == NewBlock(st)
      s0 == ConstructPayload(st, b, type)
      t == Shared_DecreaseCBCounter(s0, s0.sp[d].cb, g)
      u == NewControlBlockPointer(t, b, type)
  IN  StoreShared(u, d, b, u.blk[b].ptr)

\* a Swap that only copies the fields of b into a
SharedPtr_Swap_OneWay(st, a, b) ==
  [st EXCEPT !.sp[a] = st.sp[b]]

SharedPtr_Swap(st, a, b) ==
  [st EXCEPT !.sp[a] = st.sp[b], !.sp[b] = st.sp[a]]


\* ------------------------------------------------------------------ WeakPtr
Weak_IncreaseCBCounter(st, cb) ==
  IF cb # Null THEN IncreaseWeakCounter(st, cb) ELSE st

\* a WeakPtr release that calls the SharedPtr side of the block
Weak_DecreaseCBCounter_Strong(st, cb, g) ==
  IF cb # Null THEN DecreaseSharedCounter(st, cb, g) ELSE st

Weak_DecreaseCBCounter(st, cb, g) ==
  IF cb # Null THEN DecreaseWeakCounter(st, cb, g) ELSE st

\* WeakPtr::GetCBCounter, with the state after the read (uaf set when the
\* block it read had been deallocated)
Weak_GetCBCounter(st, cb, g) ==
  IF cb # Null
  THEN [n |-> GetSharedCounter(st, cb, g),
        st |-> IF Allocated(st, cb) THEN st ELSE Touch(st)]
  ELSE [n |-> 0, st |-> st]

Expired(st, w, g) == Weak_GetCBCounter(st, st.wp[w].cb, g).n = 0
Weak_UseCount(st, w, g) == Weak_GetCBCounter(st, st.wp[w].cb, g).n

\* the calls w.Expired() and w.UseCount(): the state after the read, with the
\* value returned in out
ExpiredCall(st, w, g) ==
  LET c == Weak_GetCBCounter(st, st.wp[w].cb, g)
  IN  [c.st EXCEPT !.out = IF Expired(st, w, g) THEN "true" ELSE "false"]

UseCountCall(st, w, g) ==
  LET c == Weak_GetCBCounter(st, st.wp[w].cb, g)
  IN  [c.st EXCEPT !.out = ToString(Weak_UseCount(st, w, g))]

WeakPtr_Default(st, d) == [st EXCEPT !.wp[d] = EmptyHandle]

WeakPtr_Copy(st, d, s) ==
  LET t == [st EXCEPT !.wp[d] = [live |-> TRUE, cb |-> st.wp[s].cb,
                                 observed |-> st.wp[s].observed]]
  IN  Weak_IncreaseCBCounter(t, t.wp[d].cb)

WeakPtr_Move(st, d, s) ==
  [st EXCEPT !.wp[d] = [live |-> TRUE, cb |-> st.wp[s].cb,
                        observed |-> st.wp[s].observed],
             !.wp[s] = EmptyHandle]

\* WeakPtr(const SharedPtr<T>& other)
WeakPtr_FromShared(st, d, s) ==
  LET t == [st EXCEPT !.wp[d] = [live |-> TRUE, cb |-> st.sp[s].cb,
                                 observed |-> st.sp[s].observed]]
  IN  IF OperatorBool(st, s)
      THEN Weak_IncreaseCBCounter(t, t.wp[d].cb)
      ELSE t

WeakPtr_CopyAssign(st, d, s, g) ==
  IF d = s
  THEN st
  ELSE LET t == Weak_DecreaseCBCounter(st, st.wp[d].cb, g)
           u == [t EXCEPT !.wp[d] = [live |-> TRUE, cb |-> t.wp[s].cb,
                                     observed |-> t.wp[s].observed]]
       IN  Weak_IncreaseCBCounter(u, u.wp[d].cb)

WeakPtr_MoveAssign(st, d, s, g) ==
  IF d = s
  THEN st
  ELSE LET t == Weak_DecreaseCBCounter(st, st.wp[d].cb, g)
       IN  [t EXCEPT !.wp[d] = [live |-> TRUE, cb |-> t.wp[s].cb,
                                observed |-> t.wp[s].observed],
                     !.wp[s] = EmptyHandle]

\* WeakPtr& operator=(const SharedPtr<T>& other)
WeakPtr_AssignShared(st, d, s, g) ==
  IF st.wp[d].cb = st.sp[s].cb
  THEN st
  ELSE LET t == Weak_DecreaseCBCounter(st, st.wp[d].cb, g)
           u == [t EXCEPT !.wp[d] = [live |-> TRUE, cb |-> t.sp[s].cb,
                                     observed |-> t.sp[s].observed]]
       IN  Weak_IncreaseCBCounter(u, u.wp[d].cb)

WeakPtr_Destructor(st, d, g) ==
  LET t == Weak_DecreaseCBCounter(st, st.wp[d].cb, g)
  IN  [t EXCEPT !.wp[d] = DeadHandle]

WeakPtr_Reset(st, d, g) ==
  LET t == Weak_DecreaseCBCounter(st, st.wp[d].cb, g)
  IN  [t EXCEPT !.wp[d] = EmptyHandle]

WeakPtr_Swap(st, a, b) ==
  [st EXCEPT !.wp[a] = st.wp[b], !.wp[b] = st.wp[a]]

\* SharedPtr<T> Lock() const, the result constructed in the shared handle d
Lock(st, w, d, g) ==
  LET c == Weak_GetCBCounter(st, st.wp[w].cb, g)
  IN  IF c.n = 0
      THEN [c.st EXCEPT !.sp[d] = EmptyHandle, !.out = "empty"]
      ELSE LET t == [c.st EXCEPT !.sp[d] = [live |-> TRUE, cb |-> st.wp[w].cb,
                                            observed |-> st.wp[w].observed]]
           IN  Shared_IncreaseCBCounter(t, t.sp[d].cb)

\* explicit SharedPtr(const WeakPtr<T>& other): d is not constructed when it throws
SharedPtr_FromWeak(st, d, w, g) ==
  LET c == Weak_GetCBCounter(st, st.wp[w].cb, g)
  IN  IF c.n = 0
      THEN [c.st EXCEPT !.out = "BadWeakPtr"]
      ELSE LET t == [c.st EXCEPT !.sp[d] = [live |-> TRUE, cb |-> st.wp[w].cb,
                                            observed |-> st.wp[w].observed]]
           IN  Shared_IncreaseCBCounter(t, t.sp[d].cb)

\* ------------------------------------------------------------------ EnableSharedFromThis
\* the class declares SharedFromThis() and WeakFromThis() and defines neither;
\* it has no data member, and no constructor of SharedPtr nor MakeShared stores
\* anything in the payload: a call p->SharedFromThis() into slot d, for the
\* payload of block b, has no definition to run, gives d nothing and changes
\* no counter
SharedFromThis(st, b, d) == [st EXCEPT !.out = "undefined reference"]
WeakFromThis(st, b, d) == [st EXCEPT !.out = "undefined reference"]

\* ------------------------------------------------------------------ UniquePtr
\* the addresses new T hands out, and the objects of type RefCounted
Objs == 1..MaxObjs
NoPtr == [live |-> FALSE, ptr |-> Null]

\* h: the UniquePtr objects (data_.GetFirst()); del[p]: how often a deleter
\* was invoked on the address p, del[Null] on the null pointer; adopted: the
\* addresses given to a UniquePtr so far; rel: the addresses Release() handed
\* back to the caller
\* data_.GetSecond()(p)
Deleter(u, p) == [u EXCEPT !.del[p] = Cap(@ + 1)]


\* explicit UniquePtr(T* ptr = nullptr)
UniquePtr_FromPointer(u, d, p) ==
  [u EXCEPT !.h[d] = [live |-> TRUE, ptr |-> p],
            !.adopted = @ \cup ({p} \ {Null})]

\* T* Release(): the pointer returned and the state after the call
Release(u, s) ==
  [ptr |-> u.h[s].ptr, u |-> [u EXCEPT !.h[s].ptr = Null]]

\* UniquePtr(UniquePtr<W, D>&& other): data_ is default-constructed, its first
\* is null
UniquePtr_Move(u, d, s) ==
  LET t0 == [u EXCEPT !.h[d] = [live |-> TRUE, ptr |-> Null]]
      t1 == Deleter(t0, t0.h[d].ptr)
      r == Release(t1, s)
  IN  [r.u EXCEPT !.h[d].ptr = r.ptr]

\* a move assignment that takes the pointer of other without calling Release
UniquePtr_MoveAssign_Shared(u, d, s) ==
  IF u.h[d].ptr = u.h[s].ptr
  THEN u
  ELSE LET t1 == Deleter(u, u.h[d].ptr)
       IN  [t1 EXCEPT !.h[d].ptr = t1.h[s].ptr]

\* UniquePtr& operator=(UniquePtr<W, D>&& other)
UniquePtr_MoveAssign(u, d, s) ==
  IF u.h[d].ptr = u.h[s].ptr
  THEN u
  ELSE LET t1 == Deleter(u, u.h[d].ptr)
           r == Release(t1, s)
       IN  [r.u EXCEPT !.h[d].ptr = r.ptr]

\* UniquePtr& operator=(std::nullptr_t)
UniquePtr_AssignNull(u, d) ==
  LET t1 == Deleter(u, u.h[d].ptr)
  IN  [t1 EXCEPT !.h[d].ptr = Null]

UniquePtr_Destructor(u, d) ==
  LET t1 == Deleter(u, u.h[d].ptr)
  IN  [t1 EXCEPT !.h[d] = NoPtr]

\* the call p = s.Release() of the program: the caller keeps p
UniquePtr_Release(u, s) ==
  LET r == Release(u, s)
  IN  [r.u EXCEPT !.rel = @ \cup ({r.ptr} \ {Null})]

\* void Reset(T* ptr = nullptr)
UniquePtr_Reset(u, d, p) ==
  LET prev_ptr == u.h[d].ptr
      t1 == [u EXCEPT !.h[d].ptr = p, !.adopted = @ \cup ({p} \ {Null})]
  IN  Deleter(t1, prev_ptr)

UniquePtr_Swap(u, a, b) ==
  [u EXCEPT !.h[a] = u.h[b], !.h[b] = u.h[a]]

\* ------------------------------------------------------------------ IntrusivePtr
\* h: the IntrusivePtr objects (ptr_); obj[o]: the RefCounted object o, made by
\* new T, with its counter_ and how often Deleter::Destroy ran on it
\* the state the operators work on: uaf is set by an operation that reads or
\* writes an object after Deleter::Destroy
CurIntr == [h |-> intr.h, obj |-> intr.obj, uaf |-> FALSE]
Alive(it, o) == it.obj[o].made /\ it.obj[o].destroyed = 0

\* IntrusivePtr::IncRef on the pointer p: RefCounted::IncRef of the object
Intr_IncRef(it, p) ==
  IF p = Null
  THEN it
  ELSE IF Alive(it, p)
       THEN [it EXCEPT !.obj[p].count = @ + 1]
       ELSE Touch(it)

\* IntrusivePtr::DecRef on the pointer p: RefCounted::DecRef of the object,
\* with Deleter::Destroy(this) when the counter reaches 0; on a destroyed
\* object the counter it decrements is whatever the storage holds
Intr_DecRef(it, p, g) ==
  IF p = Null
  THEN it
  ELSE IF Alive(it, p)
       THEN LET t == [it EXCEPT !.obj[p].count = @ - 1]
            IN  IF t.obj[p].count = 0
                THEN [t EXCEPT !.obj[p].destroyed = 1]
                ELSE t
       ELSE IF g.s = 0
            THEN [Touch(it) EXCEPT !.obj[p].destroyed = Cap(@ + 1)]
            ELSE Touch(it)

\* IntrusivePtr(T* p)
IntrusivePtr_FromPointer(it, d, p) ==
  LET t == [it EXCEPT !.h[d] = [live |-> TRUE, ptr |-> p]]
  IN  Intr_IncRef(t, p)

IntrusivePtr_Copy(it, d, s) ==
  LET t == [it EXCEPT !.h[d] = [live |-> TRUE, ptr |-> it.h[s].ptr]]
  IN  Intr_IncRef(t, t.h[d].ptr)

IntrusivePtr_Move(it, d, s) ==
  [it EXCEPT !.h[d] = [live |-> TRUE, ptr |-> it.h[s].ptr], !.h[s].ptr = Null]

IntrusivePtr_CopyAssign(it, d, s, g) ==
  IF d = s
  THEN it
  ELSE LET t == Intr_DecRef(it, it.h[d].ptr, g)
           u == [t EXCEPT !.h[d].ptr = t.h[s].ptr]
       IN  Intr_IncRef(u, u.h[d].ptr)

IntrusivePtr_MoveAssign(it, d, s, g) ==
  IF d = s
  THEN it
  ELSE LET t == Intr_DecRef(it, it.h[d].ptr, g)
       IN  [t EXCEPT !.h[d].ptr = t.h[s].ptr, !.h[s].ptr = Null]

IntrusivePtr_Destructor(it, d, g) ==
  LET t == Intr_DecRef(it, it.h[d].ptr, g)
  IN  [t EXCEPT !.h[d] = NoPtr]

IntrusivePtr_Reset(it, d, g) ==
  LET t == Intr_DecRef(it, it.h[d].ptr, g)
  IN  [t EXCEPT !.h[d].ptr = Null]

\* void Reset(T* ptr)
IntrusivePtr_ResetPtr(it, d, p, g) ==
  LET t == Intr_DecRef(it, it.h[d].ptr, g)
      u == [t EXCEPT !.h[d].ptr = p]
  IN  Intr_IncRef(u, p)

IntrusivePtr_Swap(it, a, b) ==
  [it EXCEPT !.h[a].ptr = it.h[b].ptr, !.h[b].ptr = it.h[a].ptr]

\* ------------------------------------------------------------------ the program
\* last is what the latest operation did: its name when it is one of the
\* operations in watch (a set fixed from the start) and "-" otherwise, its
\* outcome, and whether it touched dead storage
InitWatching(ops) ==
  /\ blk = [b \in Blocks |-> NoBlock]
  /\ sp = [h \in SharedIds |-> DeadHandle]
  /\ wp = [h \in WeakIds |-> DeadHandle]
  /\ last = [op |-> "-", outcome |-> "ok", uaf |-> FALSE]
  /\ watch = ops
  /\ uq = [h |-> [d \in Slots |-> NoPtr], del |-> [p \in {Null} \cup Objs |-> 0],
          adopted |-> {}, rel |-> {}]
  /\ intr = [h |-> [d \in Slots |-> NoPtr],
             obj |-> [o \in Objs |-> [made |-> FALSE, count |-> 0, destroyed |-> 0]]]

Init == InitWatching({})

\* every result the operation F can have: one, unless it reads dead storage
Outcomes(F(_)) ==
  LET r0 == F(G0) IN IF r0.uaf THEN {F(g) : g \in Garbage} ELSE {r0}

\* an operation that has read or written dead storage ends the run: what the
\* program does after it is not defined
Commit(r, op) ==
  /\ ~last.uaf
  /\ blk' = r.blk
  /\ sp' = r.sp
  /\ wp' = r.wp
  /\ last' = [op |-> IF op \in watch THEN op ELSE "-",
               outcome |-> r.out, uaf |-> r.uaf]
  /\ UNCHANGED <<watch, uq, intr>>

\* the caller's automatic variables that are constructed
LiveShared == {h \in Slots : sp[h].live}
LiveWeak == {h \in Slots : wp[h].live}
\* the payloads with members that are alive
LiveNodes == {b \in Blocks : sp[NextOf(b)].live}
\* automatic variables are destroyed in the reverse order of their
\* construction: the slots in use are 1..n, the next one constructed is n + 1
\* and the next one destroyed is n
InUse(h) == sp[h].live \/ wp[h].live
Free == {h \in Slots : ~InUse(h) /\ \A k \in Slots : ~InUse(k) => h <= k}
Top == {h \in Slots : InUse(h) /\ \A k \in Slots : InUse(k) => k <= h}
FreeShared == IF Cardinality(LiveShared) < MaxShared THEN Free ELSE {}
FreeWeak == IF Cardinality(LiveWeak) < MaxWeak THEN Free ELSE {}

\* live weak handles of block b that its weak counter does not count
Deficit(b) ==
  Cardinality({h \in WeakIds : wp[h].live /\ wp[h].cb = b}) - blk[b].weak_cnt

ASharedDefault ==
  \E d \in FreeShared : Commit(SharedPtr_Default(Cur, d), "SharedPtr()")

ASharedFromPointer ==
  \E d \in FreeShared, type \in {"None", "Plain"} :
    /\ CanAllocate
    /\ Commit(SharedPtr_FromPointer(Cur, d, type), "SharedPtr(T*)")

AMakeShared ==
  \E d \in FreeShared :
    /\ CanAllocate
    /\ Commit(MakeShared(Cur, d, "Plain"), "MakeShared")

ASharedCopy ==
  \E d \in FreeShared, s \in LiveShared :
    Commit(SharedPtr_Copy(Cur, d, s), "SharedPtr(const SharedPtr&)")

ASharedMove ==
  \E d \in FreeShared, s \in LiveShared :
    Commit(SharedPtr_Move(Cur, d, s), "SharedPtr(SharedPtr&&)")

ASharedAliasing ==
  \E d \in FreeShared, s \in LiveShared, ptr \in {Null, Foreign} :
    Commit(SharedPtr_Aliasing(Cur, d, s, ptr), "SharedPtr(const SharedPtr&, T*)")

ASharedFromWeak ==
  \E d \in FreeShared, w \in LiveWeak :
    \E r \in Outcomes(LAMBDA g : SharedPtr_FromWeak(Cur, d, w, g)) :
      Commit(r, "SharedPtr(const WeakPtr&)")

ASharedCopyAssign ==
  \E d \in LiveShared, s \in LiveShared :
    \E r \in Outcomes(LAMBDA g : SharedPtr_CopyAssign(Cur, d, s, g)) :
      Commit(r, "SharedPtr::operator=(const SharedPtr&)")

ASharedMoveAssign ==
  \E d \in LiveShared, s \in LiveShared :
    \E r \in Outcomes(LAMBDA g : SharedPtr_MoveAssign(Cur, d, s, g)) :
      Commit(r, "SharedPtr::operator=(SharedPtr&&)")

ASharedDestructor ==
  \E d \in LiveShared \cap Top :
    \E r \in Outcomes(LAMBDA g : SharedPtr_Destructor(Cur, d, g)) :
      Commit(r, "~SharedPtr")

ASharedReset ==
  \E d \in LiveShared :
    \E r \in Outcomes(LAMBDA g : SharedPtr_Reset(Cur, d, g)) :
      Commit(r, "SharedPtr::Reset()")

ASharedResetPtr ==
  \E d \in LiveShared, type \in {"None", "Plain"} :
    /\ CanAllocate
    /\ \E r \in Outcomes(LAMBDA g : SharedPtr_ResetPtr(Cur, d, type, g)) :
         Commit(r, "SharedPtr::Reset(T*)")

ASharedSwap ==
  \E a \in LiveShared, b \in LiveShared :
    Commit(SharedPtr_Swap(Cur, a, b), "SharedPtr::Swap")

AWeakDefault ==
  \E d \in FreeWeak : Commit(WeakPtr_Default(Cur, d), "WeakPtr()")

AWeakCopy ==
  \E d \in FreeWeak, s \in LiveWeak :
    Commit(WeakPtr_Copy(Cur, d, s), "WeakPtr(const WeakPtr&)")

AWeakMove ==
  \E d \in FreeWeak, s \in LiveWeak :
    Commit(WeakPtr_Move(Cur, d, s), "WeakPtr(WeakPtr&&)")

\* the guard bounds how far weak_cnt_ falls behind the handles
AWeakFromShared ==
  \E d \in FreeWeak, s \in LiveShared :
    /\ (sp[s].cb # Null /\ ~OperatorBool(Cur, s)) => Deficit(sp[s].cb) < MaxDeficit
    /\ Commit(WeakPtr_FromShared(Cur, d, s), "WeakPtr(const SharedPtr&)")

AWeakCopyAssign ==
  \E d \in LiveWeak, s \in LiveWeak :
    \E r \in Outcomes(LAMBDA g : WeakPtr_CopyAssign(Cur, d, s, g)) :
      Commit(r, "WeakPtr::operator=(const WeakPtr&)")

AWeakMoveAssign ==
  \E d \in LiveWeak, s \in LiveWeak :
    \E r \in Outcomes(LAMBDA g : WeakPtr_MoveAssign(Cur, d, s, g)) :
      Commit(r, "WeakPtr::operator=(WeakPtr&&)")

AWeakAssignShared ==
  \E d \in LiveWeak, s \in LiveShared :
    \E r \in Outcomes(LAMBDA g : WeakPtr_AssignShared(Cur, d, s, g)) :
      Commit(r, "WeakPtr::operator=(const SharedPtr&)")

AWeakDestructor ==
  \E d \in LiveWeak \cap Top :
    \E r \in Outcomes(LAMBDA g : WeakPtr_Destructor(Cur, d, g)) :
      Commit(r, "~WeakPtr")

AWeakReset ==
  \E d \in LiveWeak :
    \E r \in Outcomes(LAMBDA g : WeakPtr_Reset(Cur, d, g)) :
      Commit(r, "WeakPtr::Reset")

AWeakSwap ==
  \E a \in LiveWeak, b \in LiveWeak :
    Commit(WeakPtr_Swap(Cur, a, b), "WeakPtr::Swap")

ALock ==
  \E w \in LiveWeak, d \in FreeShared :
    \E r \in Outcomes(LAMBDA g : Lock(Cur, w, d, g)) :
      Commit(r, "WeakPtr::Lock")

\* n->next = s, for a node n and a handle s that owns another block
ANodeSetNext ==
  \E b \in LiveNodes, s \in LiveShared :
    /\ sp[s].cb \notin {Null, b}
    /\ \E r \in Outcomes(LAMBDA g : SharedPtr_CopyAssign(Cur, NextOf(b), s, g)) :
         Commit(r, "next = s")

\* d = n->next, as in head = head->next
ANodeCopyNext ==
  \E b \in LiveNodes, d \in LiveShared :
    \E r \in Outcomes(LAMBDA g : SharedPtr_CopyAssign(Cur, d, NextOf(b), g)) :
      Commit(r, "d = next")

\* d = std::move(n->next)
ANodeMoveNext ==
  \E b \in LiveNodes, d \in LiveShared :
    \E r \in Outcomes(LAMBDA g : SharedPtr_MoveAssign(Cur, d, NextOf(b), g)) :
      Commit(r, "d = move(next)")

\* n->self = s, for a handle s that owns n
ANodeSetSelf ==
  \E b \in LiveNodes, s \in LiveShared :
    /\ sp[s].cb = b
    /\ \E r \in Outcomes(LAMBDA g : WeakPtr_AssignShared(Cur, SelfOf(b), s, g)) :
         Commit(r, "self = s")

Next ==
  \/ ASharedDefault
  \/ ASharedFromPointer
  \/ AMakeShared
  \/ ASharedCopy
  \/ ASharedMove
  \/ ASharedAliasing
  \/ ASharedFromWeak
  \/ ASharedCopyAssign
  \/ ASharedMoveAssign
  \/ ASharedDestructor
  \/ ASharedReset
  \/ ASharedResetPtr
  \/ ASharedSwap
  \/ AWeakDefault
  \/ AWeakCopy
  \/ AWeakMove
  \/ AWeakFromShared
  \/ AWeakCopyAssign
  \/ AWeakMoveAssign
  \/ AWeakAssignShared
  \/ AWeakDestructor
  \/ AWeakReset
  \/ AWeakSwap
  \/ ALock

Spec == Init /\ [][Next]_vars

\* the same program with the uses of a WeakPtr told apart in last.op
InitWeakUse == InitWatching({"WeakPtr::Lock", "SharedPtr(const WeakPtr&)"})
SpecWeakUse == InitWeakUse /\ [][Next]_vars

\* the same program with the observers of WeakPtr as steps of their own and
\* every WeakPtr operation but Lock told apart in last.op
AWeakExpired ==
  \E w \in LiveWeak :
    \E r \in Outcomes(LAMBDA g : ExpiredCall(Cur, w, g)) :
      Commit(r, "WeakPtr::Expired")

AWeakUseCount ==
  \E w \in LiveWeak :
    \E r \in Outcomes(LAMBDA g : UseCountCall(Cur, w, g)) :
      Commit(r, "WeakPtr::UseCount")

WeakOps ==
  {"WeakPtr()", "WeakPtr(const WeakPtr&)", "WeakPtr(WeakPtr&&)",
   "WeakPtr(const SharedPtr&)", "WeakPtr::operator=(const WeakPtr&)",
   "WeakPtr::operator=(WeakPtr&&)", "WeakPtr::operator=(const SharedPtr&)",
   "~WeakPtr", "WeakPtr::Reset", "WeakPtr::Swap", "WeakPtr::Expired",
   "WeakPtr::UseCount"}

NextWeakOps == Next \/ AWeakExpired \/ AWeakUseCount
InitWeakOps == InitWatching(WeakOps)
SpecWeakOps == InitWeakOps /\ [][NextWeakOps]_vars

\* a program whose payloads are Nodes: a Node's destructor releases its members
\* while the release of the Node's last owner is still running
ANodeFromPointer ==
  \E d \in FreeShared :
    /\ CanAllocate
    /\ Commit(SharedPtr_FromPointer(Cur, d, "Node"), "SharedPtr(T*)")

ANodeMakeShared ==
  \E d \in FreeShared :
    /\ CanAllocate
    /\ Commit(MakeShared(Cur, d, "Node"), "MakeShared")

NextNode ==
  \/ ANodeFromPointer
  \/ ANodeMakeShared
  \/ ANodeSetNext
  \/ ANodeCopyNext
  \/ ANodeMoveNext
  \/ ANodeSetSelf
  \/ ASharedCopy
  \/ ASharedFromWeak
  \/ ASharedCopyAssign
  \/ ASharedMoveAssign
  \/ ASharedDestructor
  \/ ASharedReset
  \/ AWeakFromShared
  \/ AWeakDestructor
  \/ AWeakReset
  \/ ALock

SpecNode == Init /\ [][NextNode]_vars

\* the same program with the copies and moves of SharedPtr told apart in last.op
CopyOps ==
  {"SharedPtr(const SharedPtr&)", "SharedPtr::operator=(const SharedPtr&)",
   "next = s", "d = next"}
MoveOps ==
  {"SharedPtr(SharedPtr&&)", "SharedPtr::operator=(SharedPtr&&)",
   "d = move(next)"}
InitNodeAssign == InitWatching(CopyOps \cup MoveOps)
SpecNodeAssign == InitNodeAssign /\ [][NextNode]_vars

\* the program with the two ways of creating a block told apart in last.op
CreateOps == {"SharedPtr(T*)", "MakeShared"}
InitCreate == InitWatching(CreateOps)
SpecCreate == InitCreate /\ [][Next]_vars

\* the program with calls of s->SharedFromThis() and s->WeakFromThis(), for a
\* handle s that owns the living payload it points to
UnderOwnership(s) ==
  /\ sp[s].cb # Null /\ sp[s].observed = sp[s].cb
  /\ Allocated(Cur, sp[s].cb)
  /\ blk[sp[s].cb].shared_cnt > 0 /\ blk[sp[s].cb].destroyed = 0

ASharedFromThis ==
  \E s \in LiveShared, d \in FreeShared :
    /\ UnderOwnership(s)
    /\ Commit(SharedFromThis(Cur, sp[s].cb, d), "SharedFromThis")

AWeakFromThis ==
  \E s \in LiveShared, d \in FreeWeak :
    /\ UnderOwnership(s)
    /\ Commit(WeakFromThis(Cur, sp[s].cb, d), "WeakFromThis")

FromThisOps == {"SharedFromThis", "WeakFromThis"}
NextFromThis == Next \/ ASharedFromThis \/ AWeakFromThis
InitFromThis == InitWatching(FromThisOps)
SpecFromThis == InitFromThis /\ [][NextFromThis]_vars

\* the program with the two Swap told apart in last.op
SpecSwap ==
  InitWatching({"SharedPtr::Swap", "WeakPtr::Swap"}) /\ [][Next]_vars

\* the program of Nodes with d.Reset(new Node) and d.Reset(p) for a null p, and
\* the releases of a SharedPtr (destructor, the two Reset) told apart in last.op
ANodeResetPtr ==
  \E d \in LiveShared, type \in {"None", "Node"} :
    /\ CanAllocate
    /\ \E r \in Outcomes(LAMBDA g : SharedPtr_ResetPtr(Cur, d, type, g)) :
         Commit(r, "SharedPtr::Reset(T*)")

ReleaseOps == {"~SharedPtr", "SharedPtr::Reset()", "SharedPtr::Reset(T*)"}
NextNodeReset == NextNode \/ ANodeResetPtr
InitNodeReset == InitWatching(ReleaseOps)
SpecNodeReset == InitNodeReset /\ [][NextNodeReset]_vars


\* ------------------------------------------------------------------ the program of UniquePtr
CommitUnique(r, op) ==
  /\ uq' = r
  /\ last' = [op |-> IF op \in watch THEN op ELSE "-",
               outcome |-> "ok", uaf |-> FALSE]
  /\ UNCHANGED <<blk, sp, wp, watch, intr>>

\* the caller's UniquePtr variables, constructed and destroyed in the reverse
\* order like every automatic variable
LiveOf(h) == {d \in Slots : h[d].live}
FreeOf(h) == {d \in Slots : ~h[d].live /\ \A k \in Slots : ~h[k].live => d <= k}
TopOf(h) == {d \in Slots : h[d].live /\ \A k \in Slots : h[k].live => k <= d}
\* the pointers a caller passes to a UniquePtr: null, or the result of a new T
\* that no UniquePtr has been given yet
NewPtrs ==
  {Null} \cup {o \in Objs : o \notin uq.adopted /\ \A k \in Objs : k \notin uq.adopted => o <= k}

AUniqueFromPointer ==
  \E d \in FreeOf(uq.h), p \in NewPtrs :
    CommitUnique(UniquePtr_FromPointer(uq, d, p), "UniquePtr(T*)")

AUniqueMove ==
  \E d \in FreeOf(uq.h), s \in LiveOf(uq.h) :
    CommitUnique(UniquePtr_Move(uq, d, s), "UniquePtr(UniquePtr&&)")

AUniqueMoveAssign ==
  \E d \in LiveOf(uq.h), s \in LiveOf(uq.h) :
    CommitUnique(UniquePtr_MoveAssign(uq, d, s), "UniquePtr::operator=(UniquePtr&&)")

AUniqueAssignNull ==
  \E d \in LiveOf(uq.h) :
    CommitUnique(UniquePtr_AssignNull(uq, d), "UniquePtr::operator=(nullptr)")

AUniqueDestructor ==
  \E d \in TopOf(uq.h) :
    CommitUnique(UniquePtr_Destructor(uq, d), "~UniquePtr")

AUniqueRelease ==
  \E s \in LiveOf(uq.h) :
    CommitUnique(UniquePtr_Release(uq, s), "UniquePtr::Release")

AUniqueReset ==
  \E d \in LiveOf(uq.h), p \in NewPtrs :
    CommitUnique(UniquePtr_Reset(uq, d, p), "UniquePtr::Reset")

AUniqueSwap ==
  \E a \in LiveOf(uq.h), b \in LiveOf(uq.h) :
    CommitUnique(UniquePtr_Swap(uq, a, b), "UniquePtr::Swap")

NextUnique ==
  \/ AUniqueFromPointer
  \/ AUniqueMove
  \/ AUniqueMoveAssign
  \/ AUniqueAssignNull
  \/ AUniqueDestructor
  \/ AUniqueRelease
  \/ AUniqueReset
  \/ AUniqueSwap

SpecUnique ==
  InitWatching({"UniquePtr(T*)", "UniquePtr(UniquePtr&&)", "UniquePtr::operator=(UniquePtr&&)",
               "UniquePtr::operator=(nullptr)", "~UniquePtr", "UniquePtr::Release",
               "UniquePtr::Reset", "UniquePtr::Swap"})
    /\ [][NextUnique]_vars

\* ------------------------------------------------------------------ the program of IntrusivePtr
CommitIntr(r, op) ==
  /\ ~last.uaf
  /\ intr' = [h |-> r.h, obj |-> r.obj]
  /\ last' = [op |-> IF op \in watch THEN op ELSE "-",
               outcome |-> "ok", uaf |-> r.uaf]
  /\ UNCHANGED <<blk, sp, wp, watch, uq>>

\* the raw pointers a caller can pass: null, the Get() of a live handle, or
\* the result of a new T (the next object not yet made)
RawPtrs ==
  {Null} \cup {intr.h[d].ptr : d \in LiveOf(intr.h)}
         \cup {o \in Objs : ~intr.obj[o].made /\ \A k \in Objs : ~intr.obj[k].made => o <= k}
\* the state in which the caller holds p: after new T when p is a new object
\* (the counter of a RefCounted starts at 0)
WithPtr(p) ==
  IF p # Null /\ ~intr.obj[p].made
  THEN [CurIntr EXCEPT !.obj[p] = [made |-> TRUE, count |-> 0, destroyed |-> 0]]
  ELSE CurIntr

\* IntrusivePtr d(new T), MakeIntrusive<T>(), IntrusivePtr d(s.Get()),
\* IntrusivePtr d(nullptr)
AIntrFromPointer ==
  \E d \in FreeOf(intr.h), p \in RawPtrs :
    CommitIntr(IntrusivePtr_FromPointer(WithPtr(p), d, p), "IntrusivePtr(T*)")

AIntrCopy ==
  \E d \in FreeOf(intr.h), s \in LiveOf(intr.h) :
    CommitIntr(IntrusivePtr_Copy(CurIntr, d, s), "IntrusivePtr(const IntrusivePtr&)")

AIntrMove ==
  \E d \in FreeOf(intr.h), s \in LiveOf(intr.h) :
    CommitIntr(IntrusivePtr_Move(CurIntr, d, s), "IntrusivePtr(IntrusivePtr&&)")

AIntrCopyAssign ==
  \E d \in LiveOf(intr.h), s \in LiveOf(intr.h) :
    \E r \in Outcomes(LAMBDA g : IntrusivePtr_CopyAssign(CurIntr, d, s, g)) :
      CommitIntr(r, "IntrusivePtr::operator=(const IntrusivePtr&)")

AIntrMoveAssign ==
  \E d \in LiveOf(intr.h), s \in LiveOf(intr.h) :
    \E r \in Outcomes(LAMBDA g : IntrusivePtr_MoveAssign(CurIntr, d, s, g)) :
      CommitIntr(r, "IntrusivePtr::operator=(IntrusivePtr&&)")

AIntrDestructor ==
  \E d \in TopOf(intr.h) :
    \E r \in Outcomes(LAMBDA g : IntrusivePtr_Destructor(CurIntr, d, g)) :
      CommitIntr(r, "~IntrusivePtr")

AIntrReset ==
  \E d \in LiveOf(intr.h) :
    \E r \in Outcomes(LAMBDA g : IntrusivePtr_Reset(CurIntr, d, g)) :
      CommitIntr(r, "IntrusivePtr::Reset()")

\* d.Reset(new T), d.Reset(s.Get()), d.Reset(d.Get()), d.Reset(nullptr)
AIntrResetPtr ==
  \E d \in LiveOf(intr.h), p \in RawPtrs :
    \E r \in Outcomes(LAMBDA g : IntrusivePtr_ResetPtr(WithPtr(p), d, p, g)) :
      CommitIntr(r, "IntrusivePtr::Reset(T*)")

AIntrSwap ==
  \E a \in LiveOf(intr.h), b \in LiveOf(intr.h) :
    CommitIntr(IntrusivePtr_Swap(CurIntr, a, b), "IntrusivePtr::Swap")

NextIntr ==
  \/ AIntrFromPointer
  \/ AIntrCopy
  \/ AIntrMove
  \/ AIntrCopyAssign
  \/ AIntrMoveAssign
  \/ AIntrDestructor
  \/ AIntrReset
  \/ AIntrResetPtr
  \/ AIntrSwap

SpecIntr == InitWatching({"IntrusivePtr::Reset(T*)"}) /\ [][NextIntr]_vars

\* ------------------------------------------------------------------ claims
Owners(b) == {h \in SharedIds : sp[h].live /\ sp[h].cb = b}
Observers(b) == {h \in WeakIds : wp[h].live /\ wp[h].cb = b}
Created == {b \in Blocks : blk[b].kind # "None"}

C3_DeallocatedOnlyUnreferenced ==
  \A b \in Created :
    /\ blk[b].freed <= 1
    /\ blk[b].freed > 0 => blk[b].shared_cnt = 0 /\ blk[b].weak_cnt = 0
    /\ Observers(b) # {} => blk[b].freed = 0

\* C4: every live SharedPtr or WeakPtr with a non-null cb_ references a block
\* that has not been deallocated, and no operation reads or writes dead storage.
C4_NoDanglingHandle ==
  /\ \A h \in SharedIds : sp[h].live /\ sp[h].cb # Null => Allocated(Cur, sp[h].cb)
  /\ \A h \in WeakIds : wp[h].live /\ wp[h].cb # Null => Allocated(Cur, wp[h].cb)
  /\ ~last.uaf

\* C5: the weak count of every block is the number of live WeakPtr handles
\* whose cb_ is that block.
C5_WeakCountIsObservers ==
  \A b \in Created : blk[b].weak_cnt = Cardinality(Observers(b))

\* C10: for every live SharedPtr, observed_ is null iff cb_ is null.
C10_ObservedNullIffNoBlock ==
  \A h \in SharedIds : sp[h].live =>
    (sp[h].observed = Null <=> sp[h].cb = Null)


\* C2: in every step of defined behaviour the payload of a block is destroyed
\* exactly when the strong count goes from 1 to 0 in that step, whatever the
\* weak count is, and it is destroyed at most once.
HasPayload(b) == blk[b].kind # "None" /\ blk[b].ptr # Null
ExpiredIffNoOwner ==
  \A w \in WeakIds : wp[w].live =>
    \A g \in Garbage :
      Expired(Cur, w, g) <=>
        (wp[w].cb = Null \/ blk[wp[w].cb].shared_cnt = 0)
C6_ExpiredForGood ==
  [][/\ ExpiredIffNoOwner
     /\ ExpiredIffNoOwner'
     /\ \A b \in Created : blk[b].shared_cnt = 0 => blk'[b].shared_cnt = 0]_vars

\* the step is w.Lock() with its result constructed in d
LockStep(w, d) ==
  \E r \in Outcomes(LAMBDA g : Lock(Cur, w, d, g)) :
    /\ blk' = r.blk /\ sp' = r.sp /\ wp' = r.wp
    /\ last'.outcome = r.out /\ last'.op = "WeakPtr::Lock"

\* C7: Lock() on a WeakPtr with no block, or whose block has strong count 0,
\* returns an empty SharedPtr and changes no counter; on a block with strong
\* count n > 0 it returns a SharedPtr on that block with the WeakPtr's observed
\* address, the strong count is n + 1 and the weak count is unchanged.
C7_Lock ==
  [][\A w \in LiveWeak, d \in FreeShared : LockStep(w, d) =>
       LET b == wp[w].cb
       IN  IF b = Null \/ blk[b].shared_cnt = 0
           THEN sp'[d] = EmptyHandle /\ blk' = blk
           ELSE /\ sp'[d] = [live |-> TRUE, cb |-> b, observed |-> wp[w].observed]
                /\ blk' = [blk EXCEPT ![b].shared_cnt = @ + 1]]_vars

\* the step is SharedPtr d(w)
PromoteStep(w, d) ==
  \E r \in Outcomes(LAMBDA g : SharedPtr_FromWeak(Cur, d, w, g)) :
    /\ blk' = r.blk /\ sp' = r.sp /\ wp' = r.wp
    /\ last'.outcome = r.out /\ last'.op = "SharedPtr(const WeakPtr&)"

\* C8: constructing a SharedPtr from a WeakPtr raises BadWeakPtr when the
\* WeakPtr is expired, changes no count and creates no handle; otherwise the
\* new handle shares the block and the strong count grows by exactly 1.
C8_Promote ==
  [][\A w \in LiveWeak, d \in FreeShared : PromoteStep(w, d) =>
       LET b == wp[w].cb
       IN  IF b = Null \/ blk[b].shared_cnt = 0
           THEN last'.outcome = "BadWeakPtr" /\ blk' = blk /\ sp' = sp /\ wp' = wp
           ELSE /\ last'.outcome = "ok"
                /\ sp'[d] = [live |-> TRUE, cb |-> b, observed |-> wp[w].observed]
                /\ blk' = [blk EXCEPT ![b].shared_cnt = @ + 1]]_vars

\* the step is SharedPtr d(s, ptr)
AliasStep(d, s, ptr) ==
  LET r == SharedPtr_Aliasing(Cur, d, s, ptr)
  IN  blk' = r.blk /\ sp' = r.sp /\ wp' = r.wp

\* C9: a handle C built by the aliasing constructor from an owning handle A
\* with the address Y has Get() = Y, A keeps its Get(), both report the same
\* UseCount(), one more than A did before, and a step of defined behaviour
\* destroys the payload of their block only if no handle that owned the
\* block before the step still owns it after the step.
C9_Aliasing ==
  [][/\ \A d \in FreeShared, s \in LiveShared, ptr \in {Null, Foreign} :
          AliasStep(d, s, ptr) /\ sp[s].cb # Null =>
            /\ sp'[d].live /\ sp'[d].cb = sp[s].cb
            /\ Get(Cur', d) = ptr
            /\ Get(Cur', s) = Get(Cur, s)
            /\ \A g \in Garbage :
                 /\ UseCount(Cur', d, g) = UseCount(Cur', s, g)
                 /\ UseCount(Cur', s, g) = UseCount(Cur, s, g) + 1
     /\ \A b \in Created :
          ~last'.uaf /\ blk[b].destroyed = 0 /\ blk'[b].destroyed > 0 =>
            \A h \in SharedIds :
              ~(sp[h].live /\ sp[h].cb = b /\ sp'[h].live /\ sp'[h].cb = b)]_vars

\* an owning handle and an alias of it that observes another address
C9_Witness ==
  \E a, c \in LiveShared :
    /\ sp[a].cb # Null /\ sp[c].cb = sp[a].cb
    /\ sp[a].observed = blk[sp[a].cb].ptr /\ sp[a].observed # Null
    /\ sp[c].observed = Foreign
    /\ blk[sp[a].cb].shared_cnt = 2

\* C11: a step that is a WeakPtr operation other than Lock changes the strong
\* count of no block and destroys no payload; and a step of defined behaviour
\* that takes a strong count from 1 to 0 destroys the payload, whatever the
\* weak count is.
C11_WeakOpsObserveOnly ==
  [][/\ last'.op \in WeakOps =>
          \A b \in Blocks :
            /\ blk'[b].shared_cnt = blk[b].shared_cnt
            /\ blk'[b].destroyed = blk[b].destroyed
     /\ \A b \in Blocks :
          (/\ HasPayload(b) /\ ~last'.uaf
           /\ blk[b].shared_cnt = 1 /\ blk'[b].shared_cnt = 0) =>
            blk'[b].destroyed = 1]_vars

\* a WeakPtr has just been assigned from another one on a block whose payload
\* is destroyed and which the two of them keep allocated, while another block
\* still has an owner
C11_Witness ==
  /\ last.op = "WeakPtr::operator=(const WeakPtr&)"
  /\ \E b, c \in Created :
       /\ blk[b].destroyed = 1 /\ blk[b].freed = 0 /\ blk[b].weak_cnt = 2
       /\ Cardinality(Observers(b)) = 2
       /\ blk[c].shared_cnt > 0 /\ blk[c].destroyed = 0

\* the live SharedPtr objects, members of payloads included
AllShared == {h \in SharedIds : sp[h].live}

\* the step is SharedPtr d(s), d = s, SharedPtr d(std::move(s)), d = std::move(s)
CopyStep(d, s) ==
  LET r == SharedPtr_Copy(Cur, d, s)
  IN  /\ blk' = r.blk /\ sp' = r.sp /\ wp' = r.wp /\ last'.uaf = r.uaf
      /\ last'.op \in CopyOps
CopyAssignStep(d, s) ==
  \E r \in Outcomes(LAMBDA g : SharedPtr_CopyAssign(Cur, d, s, g)) :
    /\ blk' = r.blk /\ sp' = r.sp /\ wp' = r.wp /\ last'.uaf = r.uaf
    /\ last'.op \in CopyOps
MoveStep(d, s) ==
  LET r == SharedPtr_Move(Cur, d, s)
  IN  /\ blk' = r.blk /\ sp' = r.sp /\ wp' = r.wp /\ last'.uaf = r.uaf
      /\ last'.op \in MoveOps
MoveAssignStep(d, s) ==
  \E r \in Outcomes(LAMBDA g : SharedPtr_MoveAssign(Cur, d, s, g)) :
    /\ blk' = r.blk /\ sp' = r.sp /\ wp' = r.wp /\ last'.uaf = r.uaf
    /\ last'.op \in MoveOps

\* C12: after SharedPtr d(s) and after d = s with d and s distinct, d and s
\* reference the same block with the same observed address, the strong count
\* of that block is one higher than before (the same as before if d shared it
\* already), the block d held before is decremented exactly once; d = d
\* changes no counter and no handle.
C12_Copy ==
  [][/\ \A d \in FreeShared, s \in AllShared :
          CopyStep(d, s) =>
            /\ sp'[d].live /\ sp'[s] = sp[s]
            /\ sp'[d].cb = sp[s].cb /\ sp'[d].observed = sp[s].observed
            /\ sp[s].cb # Null =>
                 blk'[sp[s].cb].shared_cnt = blk[sp[s].cb].shared_cnt + 1
     /\ \A d \in AllShared, s \in AllShared :
          CopyAssignStep(d, s) =>
            IF d = s
            THEN blk' = blk /\ sp' = sp /\ wp' = wp
            ELSE LET A == sp[d].cb
                     B == sp[s].cb
                 IN  /\ sp'[d].live /\ sp'[s].live
                     /\ sp'[d].cb = B /\ sp'[s].cb = B
                     /\ sp'[d].observed = sp[s].observed
                     /\ sp'[s].observed = sp[s].observed
                     /\ B # Null =>
                          blk'[B].shared_cnt =
                            blk[B].shared_cnt + (IF A = B THEN 0 ELSE 1)
                     /\ A # Null /\ A # B =>
                          blk'[A].shared_cnt = blk[A].shared_cnt - 1]_vars

\* C13: SharedPtr d(std::move(s)) and d = std::move(s) with d and s distinct
\* give d the block and the observed address of s without changing the strong
\* count of that block, leave s empty, and release the block d held before
\* exactly once; d = std::move(d) changes nothing.
C13_Move ==
  [][/\ \A d \in FreeShared, s \in AllShared :
          MoveStep(d, s) =>
            /\ sp'[d] = [live |-> TRUE, cb |-> sp[s].cb, observed |-> sp[s].observed]
            /\ sp'[s] = EmptyHandle
            /\ Get(Cur', s) = Null /\ \A g \in Garbage : UseCount(Cur', s, g) = 0
            /\ blk' = blk
     /\ \A d \in AllShared, s \in AllShared :
          MoveAssignStep(d, s) =>
            IF d = s
            THEN blk' = blk /\ sp' = sp /\ wp' = wp
            ELSE LET A == sp[d].cb
                     B == sp[s].cb
                 IN  /\ sp'[d] = [live |-> TRUE, cb |-> B, observed |-> sp[s].observed]
                     /\ sp'[s] = EmptyHandle
                     /\ B # Null =>
                          blk'[B].shared_cnt =
                            blk[B].shared_cnt - (IF A = B THEN 1 ELSE 0)
                     /\ A # Null /\ A # B =>
                          blk'[A].shared_cnt = blk[A].shared_cnt - 1]_vars

\* the step is d.Reset(), d.Reset(p) with p null or a new payload of the type
ResetStep(d) ==
  \E r \in Outcomes(LAMBDA g : SharedPtr_Reset(Cur, d, g)) :
    /\ blk' = r.blk /\ sp' = r.sp /\ wp' = r.wp /\ last'.uaf = r.uaf
    /\ last'.op = "SharedPtr::Reset()"
ResetPtrStep(d, type) ==
  \E r \in Outcomes(LAMBDA g : SharedPtr_ResetPtr(Cur, d, type, g)) :
    /\ blk' = r.blk /\ sp' = r.sp /\ wp' = r.wp /\ last'.uaf = r.uaf
    /\ last'.op = "SharedPtr::Reset(T*)"

\* the release of the block A that d held: its strong count is one lower, its
\* payload is destroyed if d was the last owner and untouched otherwise
ReleasedOnce(A) ==
  A # Null =>
    /\ blk'[A].shared_cnt = blk[A].shared_cnt - 1
    /\ blk'[A].destroyed =
         (IF blk[A].shared_cnt = 1 /\ HasPayload(A) THEN 1 ELSE blk[A].destroyed)
\* every other handle of the caller, and every other SharedPtr that is still
\* alive, is as it was
OthersUnchanged(d) ==
  /\ \A h \in Slots \ {d} : sp'[h] = sp[h]
  /\ \A h \in Slots : wp'[h] = wp[h]
  /\ \A h \in SharedIds \ {d} : sp[h].live /\ sp'[h].live => sp'[h] = sp[h]

\* C14: d.Reset() decrements the strong count of the block d held exactly
\* once, destroying the payload if d was its last owner, and leaves d empty;
\* d.Reset(p) does the same release and leaves d as the owner of a fresh
\* ControlBlockPointer block with UseCount() = 1 and Get() = p; the other
\* handles are unchanged.
C14_Reset ==
  [][/\ \A d \in LiveShared :
          ResetStep(d) =>
            /\ sp'[d] = EmptyHandle
            /\ ReleasedOnce(sp[d].cb)
            /\ OthersUnchanged(d)
     /\ \A d \in LiveShared, type \in {"None", "Plain", "Node"} :
          CanAllocate /\ ResetPtrStep(d, type) =>
            LET b == NewBlock(Cur)
                p == IF type = "None" THEN Null ELSE b
            IN  /\ ReleasedOnce(sp[d].cb)
                /\ sp'[d].live /\ sp'[d].cb = b
                /\ blk[b].kind = "None" /\ blk'[b].kind = "Pointer"
                /\ \A h \in SharedIds : sp'[h].live /\ sp'[h].cb = b => h = d
                /\ \A g \in Garbage : UseCount(Cur', d, g) = 1
                /\ Get(Cur', d) = p
                /\ OthersUnchanged(d)]_vars

\* d.Reset(new Node) has just destroyed the Node d owned alone and left d the
\* only owner of a new Node, next to another handle of the caller
C14_Witness ==
  /\ last.op = "SharedPtr::Reset(T*)"
  /\ ~last.uaf
  /\ \E a, c \in Created, d \in LiveShared :
       /\ a < c
       /\ blk[a].destroyed = 1 /\ blk[a].shared_cnt = 0
       /\ sp[d].cb = c /\ sp[d].observed = c
       /\ blk[c].kind = "Pointer" /\ blk[c].shared_cnt = 1
       /\ blk[c].destroyed = 0
       /\ \E h \in LiveShared \ {d} : sp[h].observed = Foreign \/ sp[h].cb = Null

\* the step is SharedPtr d(p), with p null or a new payload of the type, or
\* d = MakeShared<T>()
FromPointerStep(d, type) ==
  LET r == SharedPtr_FromPointer(Cur, d, type)
  IN  /\ blk' = r.blk /\ sp' = r.sp /\ wp' = r.wp /\ last'.uaf = r.uaf
      /\ last'.op = "SharedPtr(T*)"
MakeSharedStep(d, type) ==
  LET r == MakeShared(Cur, d, type)
  IN  /\ blk' = r.blk /\ sp' = r.sp /\ wp' = r.wp /\ last'.uaf = r.uaf
      /\ last'.op = "MakeShared"

\* block b is new, with strong count 1 and weak count 0, and d is its handle
\* with UseCount() = 1 and Get() = p
CreatedFor(b, d, p) ==
  /\ blk[b].kind = "None" /\ blk'[b].kind # "None"
  /\ blk'[b].shared_cnt = 1 /\ blk'[b].weak_cnt = 0
  /\ blk'[b].ptr = p
  /\ sp'[d].live /\ sp'[d].cb = b
  /\ \A g \in Garbage : UseCount(Cur', d, g) = 1
  /\ Get(Cur', d) = p

\* C15: the block made by SharedPtr(T*) or by MakeShared starts with strong
\* count 1 and weak count 0, and the handle returned has UseCount() = 1 and
\* Get() equal to the payload address of the block (the adopted address, the
\* address of the object inside the block).
C15_Creation ==
  [][\A d \in FreeShared :
       CanAllocate =>
         LET b == NewBlock(Cur)
         IN  /\ \A type \in {"None", "Plain", "Node"} :
                  FromPointerStep(d, type) =>
                    /\ CreatedFor(b, d, IF type = "None" THEN Null ELSE b)
                    /\ blk'[b].kind = "Pointer"
             /\ \A type \in {"Plain", "Node"} :
                  MakeSharedStep(d, type) =>
                    /\ CreatedFor(b, d, b)
                    /\ blk'[b].kind = "Object"]_vars

\* a block has just been made by MakeShared, after a block made by
\* SharedPtr(T*) that has an owner and an observer by now
C15_Witness ==
  /\ last.op \in CreateOps
  /\ \E b, c \in Created, d \in LiveShared :
       /\ b < c
       /\ blk[b].kind = "Pointer" /\ blk[b].weak_cnt = 1 /\ blk[b].shared_cnt = 1
       /\ blk[c].kind = "Object" /\ blk[c].shared_cnt = 1 /\ blk[c].weak_cnt = 0
       /\ sp[d] = [live |-> TRUE, cb |-> c, observed |-> c]

\* C16: a call of SharedFromThis() (WeakFromThis()) on a payload under shared
\* ownership returns a new SharedPtr (WeakPtr) on the payload's existing
\* block, whose strong (weak) count grows by 1, and creates no block.
C16_FromThis ==
  [][/\ last'.op = "SharedFromThis" =>
          /\ Created' = Created
          /\ \E b \in Created, d \in Slots :
               /\ ~sp[d].live /\ sp'[d].live /\ sp'[d].cb = b
               /\ blk'[b].shared_cnt = blk[b].shared_cnt + 1
     /\ last'.op = "WeakFromThis" =>
          /\ Created' = Created
          /\ \E b \in Created, d \in Slots :
               /\ ~wp[d].live /\ wp'[d].live /\ wp'[d].cb = b
               /\ blk'[b].weak_cnt = blk[b].weak_cnt + 1]_vars

\* a handle that owns nothing: UseCount() is 0
IsEmpty(h) == sp[h].cb = Null

\* l == r is true iff Get() of both is the same address
EqIffSameAddress ==
  \A l, r \in AllShared : OperatorEq(Cur, l, r) <=> (Get(Cur, l) = Get(Cur, r))
\* handles of one block that observe different addresses are unequal
AliasUnequal ==
  \A l, r \in AllShared :
    (sp[l].cb = sp[r].cb /\ sp[l].observed # sp[r].observed) => ~OperatorEq(Cur, l, r)
EmptyEqual ==
  \A l, r \in AllShared : (IsEmpty(l) /\ IsEmpty(r)) => OperatorEq(Cur, l, r)

\* C17: operator== on two SharedPtr is true iff their observed addresses are
\* equal, whatever their blocks: an aliasing handle with another address is
\* unequal to its source, and two empty handles are equal.
C17_Equality == EqIffSameAddress /\ AliasUnequal /\ EmptyEqual

\* the step destroys or resets the last SharedPtr of block b, and the
\* destructor of b's payload releases the last WeakPtr of b, the payload's own
\* member self
SelfTeardownStep(b) ==
  /\ last'.op \in ReleaseOps
  /\ blk[b].type = "Node" /\ Allocated(Cur, b)
  /\ blk[b].shared_cnt = 1 /\ blk[b].weak_cnt = 1
  /\ wp[SelfOf(b)].live /\ wp[SelfOf(b)].cb = b
  /\ blk'[b].shared_cnt = 0 /\ blk'[b].destroyed > 0
  /\ ~wp'[SelfOf(b)].live

\* C18: when the release of the last SharedPtr of a block destroys a payload
\* whose destructor releases the last WeakPtr of the same block, the block is
\* deallocated exactly once and the release reads no storage of the block
\* after the deallocation.
C18_TeardownNotReentered ==
  [][\A b \in Blocks :
       SelfTeardownStep(b) => blk'[b].freed = 1 /\ ~last'.uaf]_vars

\* C19: in every state the program reaches by defined behaviour, a block that
\* was created and that no live SharedPtr and no live WeakPtr references has
\* had its payload destroyed and has been deallocated.
C19_NoLeak ==
  ~last.uaf =>
    \A b \in Created :
      (Owners(b) = {} /\ Observers(b) = {}) =>
        /\ blk[b].freed > 0
        /\ HasPayload(b) => blk[b].destroyed > 0

\* d is the only owner of the Node b1, whose member next owns another block
HeadOfList(d, b1) ==
  /\ sp[d].cb = b1 /\ blk[b1].type = "Node" /\ Allocated(Cur, b1)
  /\ blk[b1].shared_cnt = 1 /\ blk[b1].destroyed = 0
  /\ sp[NextOf(b1)].live /\ sp[NextOf(b1)].cb \notin {Null, b1}
  /\ Allocated(Cur, sp[NextOf(b1)].cb)

\* C20: d = d->next and d = std::move(d->next), with d the only owner of a
\* Node whose member next owns another block B2, end with d owning B2 and
\* B2's payload alive, without a read of next after the Node (and next with
\* it) has been destroyed.
C20_AssignFromOwnPayload ==
  [][\A d \in LiveShared, b1 \in Blocks :
       (/\ HeadOfList(d, b1)
        /\ \/ CopyAssignStep(d, NextOf(b1))
           \/ MoveAssignStep(d, NextOf(b1))) =>
         LET b2 == sp[NextOf(b1)].cb
         IN  /\ ~last'.uaf
             /\ sp'[d].live /\ sp'[d].cb = b2
             /\ blk'[b2].freed = 0 /\ blk'[b2].shared_cnt > 0
             /\ HasPayload(b2) => blk'[b2].destroyed = 0]_vars

\* the step is w = s for the WeakPtr w and the SharedPtr s
AssignSharedStep(w, s) ==
  \E r \in Outcomes(LAMBDA g : WeakPtr_AssignShared(Cur, w, s, g)) :
    /\ blk' = r.blk /\ sp' = r.sp /\ wp' = r.wp /\ last'.uaf = r.uaf
    /\ last'.op = "WeakPtr::operator=(const SharedPtr&)"

\* C21: after w = s the WeakPtr w references the block of s and observes the
\* address s exposes, so that w.Lock().Get() = s.Get() while s is alive, also
\* when w referenced the same block with another address before; the weak
\* count of the block grows by one if w was not on the block and not at all
\* if it was.
C21_AssignShared ==
  [][\A w \in LiveWeak, s \in LiveShared :
       AssignSharedStep(w, s) =>
         LET B == sp[s].cb
         IN  /\ wp'[w].live /\ wp'[w].cb = B
             /\ wp'[w].observed = sp[s].observed
             /\ \A f \in FreeShared', g \in Garbage :
                  LET r == Lock(Cur', w, f, g)
                  IN  (B # Null /\ blk'[B].shared_cnt > 0 /\ ~r.uaf) =>
                        Get(r, f) = Get(Cur', s)
             /\ B # Null =>
                  blk'[B].weak_cnt =
                    blk[B].weak_cnt + (IF wp[w].cb = B THEN 0 ELSE 1)]_vars

\* the step is a.Swap(b) on two SharedPtr, on two WeakPtr
SharedSwapStep(a, b) ==
  LET r == SharedPtr_Swap(Cur, a, b)
  IN  /\ blk' = r.blk /\ sp' = r.sp /\ wp' = r.wp /\ last'.uaf = r.uaf
      /\ last'.op = "SharedPtr::Swap"
WeakSwapStep(a, b) ==
  LET r == WeakPtr_Swap(Cur, a, b)
  IN  /\ blk' = r.blk /\ sp' = r.sp /\ wp' = r.wp /\ last'.uaf = r.uaf
      /\ last'.op = "WeakPtr::Swap"

\* C22: a.Swap(b) on two SharedPtr, and on two WeakPtr, exchanges the block
\* and the observed address of a and b, changes no strong or weak count and no
\* other handle, destroys no payload, and a second a.Swap(b) restores both
\* handles.
C22_Swap ==
  [][/\ \A a, b \in LiveShared :
          SharedSwapStep(a, b) =>
            /\ sp'[a] = sp[b] /\ sp'[b] = sp[a]
            /\ \A h \in SharedIds \ {a, b} : sp'[h] = sp[h]
            /\ wp' = wp /\ blk' = blk /\ ~last'.uaf
            /\ SharedPtr_Swap(Cur', a, b).sp = sp
            /\ SharedPtr_Swap(Cur', a, b).blk = blk
     /\ \A a, b \in LiveWeak :
          WeakSwapStep(a, b) =>
            /\ wp'[a] = wp[b] /\ wp'[b] = wp[a]
            /\ \A h \in WeakIds \ {a, b} : wp'[h] = wp[h]
            /\ sp' = sp /\ blk' = blk /\ ~last'.uaf
            /\ WeakPtr_Swap(Cur', a, b).wp = wp
            /\ WeakPtr_Swap(Cur', a, b).blk = blk]_vars

\* two SharedPtr on different blocks with different counts have just been
\* swapped: the variable constructed first holds the block created last
C22_Witness ==
  /\ last.op = "SharedPtr::Swap"
  /\ \E a, b \in LiveShared, x, y \in Created :
       /\ a < b /\ x < y
       /\ sp[a].cb = y /\ sp[b].cb = x
       /\ blk[x].shared_cnt = 1 /\ blk[y].shared_cnt = 1
       /\ blk[x].weak_cnt # blk[y].weak_cnt
       /\ blk[x].destroyed = 0 /\ blk[y].destroyed = 0

\* the live UniquePtr that hold the address p
Holders(p) == {d \in Slots : uq.h[d].live /\ uq.h[d].ptr = p}

\* an adopted address has at most one holder; the deleter has run on it once
\* if it has no holder and was not handed back by Release, and never otherwise
UniqueOwnership ==
  \A p \in uq.adopted :
    /\ Cardinality(Holders(p)) <= 1
    /\ p \in uq.rel => Holders(p) = {}
    /\ uq.del[p] = (IF Holders(p) = {} /\ p \notin uq.rel THEN 1 ELSE 0)

\* the step is UniquePtr d(std::move(s)), d = std::move(s), s.Release()
UniqueMoveStep(d, s) ==
  uq' = UniquePtr_Move(uq, d, s) /\ last'.op = "UniquePtr(UniquePtr&&)"
UniqueMoveAssignStep(d, s) ==
  uq' = UniquePtr_MoveAssign(uq, d, s) /\ last'.op = "UniquePtr::operator=(UniquePtr&&)"
UniqueReleaseStep(s) ==
  uq' = UniquePtr_Release(uq, s) /\ last'.op = "UniquePtr::Release"

\* after the move construction of d from s and after s.Release(), s holds null
SourceNullAfterMoveOrRelease ==
  /\ \A d \in FreeOf(uq.h), s \in LiveOf(uq.h) :
       UniqueMoveStep(d, s) =>
         uq'.h[s].ptr = Null /\ uq'.h[d].ptr = uq.h[s].ptr
  /\ \A s \in LiveOf(uq.h) :
       UniqueReleaseStep(s) => uq'.h[s].ptr = Null

\* C23: over every sequence of operations of UniquePtr each adopted address is
\* held by at most one live UniquePtr, the deleter is invoked on it exactly
\* once, when it loses its holder, and never if Release handed it back; after
\* a move construction, a move assignment and a Release the source holds null.
C23_UniqueOwnership ==
  [][/\ UniqueOwnership'
     /\ SourceNullAfterMoveOrRelease
     /\ \A d, s \in LiveOf(uq.h) :
          UniqueMoveAssignStep(d, s) =>
            uq'.h[s].ptr = Null /\ uq'.h[d].ptr = uq.h[s].ptr]_vars

\* C23 with the move assignment of a UniquePtr to itself set apart: it changes
\* nothing, and the UniquePtr keeps its pointer.
C23_UniqueOwnership_Amended ==
  [][/\ UniqueOwnership'
     /\ SourceNullAfterMoveOrRelease
     /\ \A d, s \in LiveOf(uq.h) :
          UniqueMoveAssignStep(d, s) =>
            IF d = s
            THEN uq' = uq
            ELSE uq'.h[s].ptr = Null /\ uq'.h[d].ptr = uq.h[s].ptr]_vars

\* d = std::move(s) has just deleted the address d held and given d the
\* address of s, which holds null now
C23_Witness ==
  /\ last.op = "UniquePtr::operator=(UniquePtr&&)"
  /\ \E d, s \in LiveOf(uq.h), p, q \in uq.adopted :
       /\ d # s /\ p # q
       /\ uq.del[p] = 1 /\ uq.del[q] = 0
       /\ uq.h[d].ptr = q /\ uq.h[s].ptr = Null

\* C24: no operation of UniquePtr invokes the deleter with a null pointer:
\* the number of such invocations stays 0.
C24_NoDeleterOnNull == uq.del[Null] = 0

\* the number of live IntrusivePtr handles that point at the object o
HandlesAt(o) ==
  Cardinality({d \in Slots : intr.h[d].live /\ intr.h[d].ptr = o})

\* the counter of every object that has not been destroyed equals the number
\* of handles pointing at it (judged after the operations that stayed within
\* live storage)
CountIsHandles ==
  \A o \in Objs :
    intr'.obj[o].made /\ intr'.obj[o].destroyed = 0
      => intr'.obj[o].count = HandlesAt(o)'

\* an object is destroyed once, by the step that takes its last handle away
DestroyedAtLastHandle ==
  \A o \in Objs :
    intr'.obj[o].destroyed # intr.obj[o].destroyed
      => /\ intr.obj[o].destroyed = 0 /\ intr'.obj[o].destroyed = 1
         /\ intr.obj[o].count = 1 /\ HandlesAt(o) = 1
         /\ HandlesAt(o)' = 0

\* C25: after every operation of IntrusivePtr the RefCount() of an object is
\* the number of live handles pointing at it, and the object is destroyed
\* through its Deleter exactly once, by the step at which that number goes
\* from 1 to 0.
C25_CountIsHandles ==
  [][(~last'.uaf => CountIsHandles) /\ DestroyedAtLastHandle]_vars

\* h.Reset(h.Get()), or h.Reset(g.Get()) for a g that holds what h holds:
\* Reset(T*) is the operation and no handle points elsewhere afterwards
ResetHeldStep(d) ==
  /\ last'.op = "IntrusivePtr::Reset(T*)"
  /\ intr.h[d].live /\ intr.h[d].ptr # Null
  /\ intr'.h = intr.h

\* C26: Reset(p) with p the object the handle already holds leaves the object
\* alive and its reference count unchanged, also at count 1: the object is
\* not destroyed and no destroyed object is referenced again.
C26_ResetHeld ==
  [][\A d \in Slots :
       ResetHeldStep(d)
         => /\ ~last'.uaf
            /\ intr'.obj[intr.h[d].ptr] = intr.obj[intr.h[d].ptr]]_vars

====
